---- MODULE Spec2Model ----
(***************************************************************************)
(* State-machine model of src/src/App.tsx (SwiftXR3DEditor): the session   *)
(* state held in the component's useState cells, the object-URL registry   *)
(* of the browser, the clock read by Date.now(), and one action per event  *)
(* handler (file import, click on the model, label prompt, delete, clear,  *)
(* unmount).  Every handler is synchronous, so each is one atomic action;  *)
(* the only suspension point is the blocking prompt() inside handleClick.  *)
(***************************************************************************)
EXTENDS Integers, Sequences, FiniteSets, TLC

VARIABLES
    modelUrl,   \* useState<string|null>(null): NoUrl, or the number of an object URL
    hotspots,   \* useState<Hotspot[]>([]): sequence of [id, position, label]
    isLoading,  \* useState<boolean>(false)
    error,      \* useState<string|null>(null)
    created,    \* number of object URLs URL.createObjectURL has returned so far
    revoked,    \* revoked[u]: number of URL.revokeObjectURL(u) calls so far
    clock,      \* the value Date.now() returns
    mounted,    \* the component is mounted
    pc,         \* "idle", or "prompt" while handleClick is blocked in prompt()
    point,      \* event.point of the click being handled
    stopped,    \* propagation of the last click on the model was stopped
    ev,         \* the event whose handler ran last (history)
    pre         \* the session state that handler started from (history)

vars == <<modelUrl, hotspots, isLoading, error, created, revoked, clock,
          mounted, pc, point, stopped, ev, pre>>

----------------------------------------------------------------------------
(* Bounds of the model *)

MaxHotspots == 2
MaxUrls == 2
MaxRevokes == 1
FirstClock == 9
MaxClock == 10

(* Program constants *)

NoUrl == 0
NULL == "null"
ErrNotGlb == "Please select a .GLB file"
ErrLoad == "Failed to load model"

----------------------------------------------------------------------------
(* Inputs *)

\* file names, as sequences of characters
FileNames ==
    { <<"a", ".", "g", "l", "b">>,
      <<"A", ".", "G", "l", "B">>,
      <<"a", ".", "g", "l", "t", "f">>,
      <<"g", "l", "b">> }

\* event.target.files?.[0]: undefined, or a File with a name
NoFile == [present |-> FALSE, name |-> <<>>]
Files == {NoFile} \cup {[present |-> TRUE, name |-> n] : n \in FileNames}

\* event.point: the world-space intersection point of the click (no claim
\* depends on where a hotspot lies, so one point stands for all)
Points == { <<1, 2, 3>> }

\* what prompt() returns: null on cancel, else the text typed
Cancelled == [isNull |-> TRUE, text |-> <<>>]
PromptResults ==
    {Cancelled} \cup {[isNull |-> FALSE, text |-> t] : t \in {<<>>, <<" ">>, <<"E">>}}

----------------------------------------------------------------------------
(* Pure helpers *)

\* String.prototype.toLowerCase on one character
LowerChar(c) ==
    CASE c = "A" -> "a"
      [] c = "B" -> "b"
      [] c = "G" -> "g"
      [] c = "L" -> "l"
      [] OTHER -> c

toLowerCase(s) == [i \in 1..Len(s) |-> LowerChar(s[i])]

endsWith(s, suf) ==
    /\ Len(s) >= Len(suf)
    /\ SubSeq(s, Len(s) - Len(suf) + 1, Len(s)) = suf

\* mutant: compares the extension without the dot
IsGlbNoDot(name) == endsWith(toLowerCase(name), <<"g", "l", "b">>)

\* file.name.toLowerCase().endsWith('.glb')
IsGlb(name) == endsWith(toLowerCase(name), <<".", "g", "l", "b">>)

\* JavaScript truthiness of a string|null: null and "" are falsy
Truthy(v) == ~v.isNull /\ Len(v.text) > 0

Digit(d) ==
    CASE d = 0 -> "0" [] d = 1 -> "1" [] d = 2 -> "2" [] d = 3 -> "3"
      [] d = 4 -> "4" [] d = 5 -> "5" [] d = 6 -> "6" [] d = 7 -> "7"
      [] d = 8 -> "8" [] OTHER -> "9"

RECURSIVE toString(_)
\* Number.prototype.toString: the decimal digits of a non-negative integer
toString(n) == IF n < 10 THEN <<Digit(n)>> ELSE Append(toString(n \div 10), Digit(n % 10))

\* Array.prototype.filter
RECURSIVE filter(_, _)
filter(s, id) ==
    IF s = <<>> THEN <<>>
    ELSE IF Head(s).id # id THEN <<Head(s)>> \o filter(Tail(s), id)
         ELSE filter(Tail(s), id)

----------------------------------------------------------------------------
(* The session as a record, and the operations on it *)

Session ==
    [modelUrl |-> modelUrl, hotspots |-> hotspots, isLoading |-> isLoading,
     error |-> error, created |-> created, revoked |-> revoked]

\* URL.revokeObjectURL(u)
revokeObjectURL(s, u) == [s EXCEPT !.revoked[u] = @ + 1]

\* lines 170-172: revoke the previous URL if there is one
RevokePrevious(s) ==
    IF s.modelUrl # NoUrl THEN revokeObjectURL(s, s.modelUrl) ELSE s

\* mutant: the failure path also drops the model reference
CatchDropsModel(s) == [s EXCEPT !.error = ErrLoad, !.modelUrl = NoUrl]

\* lines 178-180: the catch branch
CatchBranch(s) == [s EXCEPT !.error = ErrLoad]

\* mutant: the new model keeps the old hotspots
TryKeepsHotspots(s) ==
    [s EXCEPT !.created = @ + 1, !.modelUrl = s.created + 1]

\* lines 175-177: createObjectURL succeeded
TryBranch(s) ==
    [s EXCEPT !.created = @ + 1, !.modelUrl = s.created + 1, !.hotspots = <<>>]

\* lines 149-155: the effect's cleanup, run with the modelUrl of the render
\* that installed it
EffectCleanup(s, url) == IF url # NoUrl THEN revokeObjectURL(s, url) ELSE s

\* the [modelUrl] dependency: the cleanup runs when the committed modelUrl
\* differs from the one of the previous render
Rerender(s, oldUrl) == IF s.modelUrl # oldUrl THEN EffectCleanup(s, oldUrl) ELSE s

\* lines 161-164: the extension check failed
Reject(s) == [s EXCEPT !.error = ErrNotGlb]

\* lines 157-184, followed by the re-render the state updates cause
handleFileUploadResult(s, file, fails) ==
    IF ~file.present THEN s
    ELSE IF ~IsGlb(file.name) THEN Reject(s)
    ELSE LET s1 == [s EXCEPT !.isLoading = TRUE, !.error = NULL]
             s2 == RevokePrevious(s1)
             s3 == IF fails THEN CatchBranch(s2) ELSE TryBranch(s2)
             s4 == [s3 EXCEPT !.isLoading = FALSE]
         IN  Rerender(s4, s.modelUrl)

\* lines 186-193
addHotspotResult(hs, position, label, now) ==
    Append(hs, [id |-> toString(now),
                position |-> <<position[1], position[2], position[3]>>,
                label |-> label])

\* lines 195-197
deleteHotspotResult(hs, id) == filter(hs, id)

\* mutant: drops only the first hotspot
ClearDropsHead(hs) == IF hs = <<>> THEN <<>> ELSE Tail(hs)

\* lines 199-201
clearHotspotsResult(hs) == <<>>

\* mutant: every click is consumed
StopAlways(shiftKey) == TRUE

\* lines 79-80: event.stopPropagation() is called iff event.shiftKey
StopsPropagation(shiftKey) == shiftKey

----------------------------------------------------------------------------
(* Actions *)

Commit(s) ==
    /\ modelUrl' = s.modelUrl
    /\ hotspots' = s.hotspots
    /\ isLoading' = s.isLoading
    /\ error' = s.error
    /\ created' = s.created
    /\ revoked' = s.revoked

Idle == mounted /\ pc = "idle"

Init ==
    /\ modelUrl = NoUrl
    /\ hotspots = <<>>
    /\ isLoading = FALSE
    /\ error = NULL
    /\ created = 0
    /\ revoked = [u \in 1..MaxUrls |-> 0]
    /\ clock = FirstClock
    /\ mounted = TRUE
    /\ pc = "idle"
    /\ point = <<0, 0, 0>>
    /\ stopped = FALSE
    /\ ev = [kind |-> "init"]
    /\ pre = Session

\* the change event of the file input (line 223)
handleFileUpload(file, fails) ==
    /\ Idle
    /\ IF file.present /\ IsGlb(file.name)
         THEN IF fails
                THEN modelUrl # NoUrl => revoked[modelUrl] < MaxRevokes
                ELSE created < MaxUrls
         ELSE ~fails  \* createObjectURL is not reached
    /\ Commit(handleFileUploadResult(Session, file, fails))
    /\ ev' = [kind |-> "import", file |-> file, fails |-> fails]
    /\ pre' = Session
    /\ UNCHANGED <<clock, mounted, pc, point, stopped>>

\* a click on the model (line 93); Model is rendered only with a modelUrl
\* (lines 109, 253)
handleClick(shiftKey, p) ==
    /\ Idle
    /\ modelUrl # NoUrl
    /\ stopped' = StopsPropagation(shiftKey)
    /\ IF shiftKey
         THEN pc' = "prompt" /\ point' = p
         ELSE UNCHANGED <<pc, point>>
    /\ ev' = [kind |-> "click", shiftKey |-> shiftKey]
    /\ pre' = Session
    /\ UNCHANGED <<modelUrl, hotspots, isLoading, error, created, revoked,
                   clock, mounted>>

\* prompt() returns (lines 82-85)
PromptReturns(label) ==
    /\ mounted
    /\ pc = "prompt"
    /\ Truthy(label) => Len(hotspots) < MaxHotspots
    /\ hotspots' = IF Truthy(label)
                     THEN addHotspotResult(hotspots, point, label.text, clock)
                     ELSE hotspots
    /\ pc' = "idle"
    /\ ev' = [kind |-> "prompt", label |-> label]
    /\ pre' = Session
    /\ UNCHANGED <<modelUrl, isLoading, error, created, revoked, clock,
                   mounted, point, stopped>>

\* a delete button (lines 120, 302), or any other call of deleteHotspot
deleteHotspot(id) ==
    /\ Idle
    /\ hotspots' = deleteHotspotResult(hotspots, id)
    /\ ev' = [kind |-> "delete", id |-> id]
    /\ pre' = Session
    /\ UNCHANGED <<modelUrl, isLoading, error, created, revoked, clock,
                   mounted, pc, point, stopped>>

\* the Clear Hotspots button, rendered only with a modelUrl (lines 227-235)
clearHotspots ==
    /\ Idle
    /\ modelUrl # NoUrl
    /\ hotspots' = clearHotspotsResult(hotspots)
    /\ ev' = [kind |-> "clear"]
    /\ pre' = Session
    /\ UNCHANGED <<modelUrl, isLoading, error, created, revoked, clock,
                   mounted, pc, point, stopped>>

\* the component unmounts: the effect's cleanup runs one last time
Unmount ==
    /\ Idle
    /\ Commit(EffectCleanup(Session, modelUrl))
    /\ mounted' = FALSE
    /\ ev' = [kind |-> "unmount"]
    /\ pre' = Session
    /\ UNCHANGED <<clock, pc, point, stopped>>

\* time passes between two readings of Date.now(), also during prompt()
Tick ==
    /\ mounted
    /\ clock < MaxClock
    /\ clock' = clock + 1
    /\ UNCHANGED <<modelUrl, hotspots, isLoading, error, created, revoked,
                   mounted, pc, point, stopped, ev, pre>>

Ids == {toString(n) : n \in FirstClock..MaxClock}

Next ==
    \/ \E file \in Files, fails \in BOOLEAN : handleFileUpload(file, fails)
    \/ \E shiftKey \in BOOLEAN, p \in Points : handleClick(shiftKey, p)
    \/ \E label \in PromptResults : PromptReturns(label)
    \/ \E id \in Ids : deleteHotspot(id)
    \/ clearHotspots
    \/ Unmount
    \/ Tick

Spec == Init /\ [][Next]_vars

----------------------------------------------------------------------------
(* Properties.  ev is the event handled last and pre the session its       *)
(* handler started from, so a statement about an operation reads           *)
(* "ev.kind = ... => relation between pre and the current session".        *)

Urls == 1..created

IdsOf(hs) == {hs[i].id : i \in 1..Len(hs)}

\* the extension test as the specification words it: the last four
\* characters are ".glb" in any mix of upper and lower case
EndsInGlbIgnoringCase(name) ==
    /\ Len(name) >= 4
    /\ name[Len(name) - 3] = "."
    /\ name[Len(name) - 2] \in {"g", "G"}
    /\ name[Len(name) - 1] \in {"l", "L"}
    /\ name[Len(name)] \in {"b", "B"}

\* the text is empty once leading and trailing white space is removed
EmptyAfterTrim(text) == \A i \in 1..Len(text) : text[i] = " "

\* the hotspots of hs whose id is not id, in their order
RECURSIVE Others(_, _)
Others(hs, id) ==
    IF hs = <<>> THEN <<>>
    ELSE (IF Head(hs).id = id THEN <<>> ELSE <<Head(hs)>>) \o Others(Tail(hs), id)

SessionUnchanged == Session = pre

\* C1: every object URL created by an import is revoked exactly once over
\* the life of the session: never twice at any time, and not zero times
\* once the component is torn down.
C1_ReleasedExactlyOnce ==
    /\ \A u \in Urls : revoked[u] <= 1
    /\ ~mounted => \A u \in Urls : revoked[u] = 1

\* C2: addHotspot with a non-empty label adds exactly one hotspot, its id
\* differs from every id already in the collection, and so no two hotspots
\* of the collection share an id.
C2_AddGivesFreshId ==
    /\ (ev.kind = "prompt" /\ Truthy(ev.label)) =>
          /\ Len(hotspots) = Len(pre.hotspots) + 1
          /\ hotspots[Len(hotspots)].id \notin IdsOf(pre.hotspots)
    /\ \A i, j \in 1..Len(hotspots) : hotspots[i].id = hotspots[j].id => i = j

\* C3: removeHotspot(id) leaves the collection unchanged when no hotspot
\* has that id; when one has, the count drops by exactly one, no hotspot
\* with that id is left, and the others keep their relative order.
C3_RemoveExactlyOne ==
    ev.kind = "delete" =>
       IF ev.id \notin IdsOf(pre.hotspots)
         THEN hotspots = pre.hotspots
         ELSE /\ Len(hotspots) = Len(pre.hotspots) - 1
              /\ ev.id \notin IdsOf(hotspots)
              /\ hotspots = Others(pre.hotspots, ev.id)

C4_Case ==
    /\ ev.kind = "import"
    /\ ev.file.present
    /\ EndsInGlbIgnoringCase(ev.file.name)
    /\ ~ev.fails

\* C4: a successful import of a file whose name ends in .glb (in any case)
\* leaves the hotspot collection empty whatever it held, sets modelUrl to
\* the resource just created, and ends with loading false and no error.
C4_ValidImportResets ==
    C4_Case =>
       /\ hotspots = <<>>
       /\ created = pre.created + 1
       /\ modelUrl = created
       /\ revoked[modelUrl] = 0
       /\ isLoading = FALSE
       /\ error = NULL

\* an upper-case name replaces a model that had a hotspot, after a rejection
C4_Witness ==
    /\ C4_Case
    /\ ev.file.name[1] = "A"
    /\ pre.hotspots # <<>>
    /\ pre.error = ErrNotGlb
    /\ hotspots = <<>>
    /\ modelUrl = 2

C5_Case ==
    /\ ev.kind = "import"
    /\ ev.file.present
    /\ ~EndsInGlbIgnoringCase(ev.file.name)

\* C5: importing a file whose name does not end in .glb changes only the
\* error message: modelUrl, the hotspots and the loading flag are as
\* before, and no object URL is created or revoked.
C5_RejectOnlySetsError ==
    C5_Case =>
       /\ error = ErrNotGlb
       /\ modelUrl = pre.modelUrl
       /\ hotspots = pre.hotspots
       /\ isLoading = pre.isLoading
       /\ created = pre.created
       /\ revoked = pre.revoked

\* "glb" without the dot is rejected while a model with a hotspot is loaded
C5_Witness ==
    /\ C5_Case
    /\ ev.file.name = <<"g", "l", "b">>
    /\ pre.modelUrl # NoUrl
    /\ pre.hotspots # <<>>
    /\ pre.error = NULL
    /\ error = ErrNotGlb

\* C6: the hotspot collection is empty whenever modelUrl is none.
C6_NoHotspotsWithoutModel == modelUrl = NoUrl => hotspots = <<>>

\* an accepted import whose resource creation failed while no model is loaded
C6_Witness ==
    /\ modelUrl = NoUrl
    /\ ev.kind = "import"
    /\ ev.file.present
    /\ ev.fails
    /\ error = ErrLoad

\* C7: a modifier-held click whose prompt is cancelled, or returns text
\* that is empty after trimming, creates no hotspot and changes nothing
\* else of the session; no error is surfaced.
C7_BlankLabelCreatesNothing ==
    (ev.kind = "prompt" /\ (ev.label.isNull \/ EmptyAfterTrim(ev.label.text))) =>
       SessionUnchanged

\* C8: clearHotspots leaves the collection empty, a second application
\* changes nothing more, and modelUrl, loading and error are as before.
C8_ClearEmptiesIdempotent ==
    ev.kind = "clear" =>
       /\ hotspots = <<>>
       /\ clearHotspotsResult(hotspots) = hotspots
       /\ modelUrl = pre.modelUrl
       /\ isLoading = pre.isLoading
       /\ error = pre.error

\* two hotspots are cleared at once
C8_Witness ==
    /\ ev.kind = "clear"
    /\ Len(pre.hotspots) = 2
    /\ hotspots = <<>>

\* C9: a click without the modifier is not consumed and changes nothing;
\* a click with the modifier is consumed before the prompt opens, and stays
\* consumed whatever the prompt returns.
C9_ClickDispatch ==
    /\ (ev.kind = "click" /\ ~ev.shiftKey) =>
          ~stopped /\ pc = "idle" /\ SessionUnchanged
    /\ (ev.kind = "click" /\ ev.shiftKey) =>
          stopped /\ pc = "prompt" /\ SessionUnchanged
    /\ pc = "prompt" => stopped
    /\ ev.kind = "prompt" => stopped

\* a plain click after an earlier modifier-held click had added a hotspot
C9_Witness ==
    /\ ev.kind = "click"
    /\ ~ev.shiftKey
    /\ hotspots # <<>>
    /\ ~stopped

\* C10: once an import handler has finished, a modelUrl that is not none
\* names an object URL that was created and has not been revoked.
C10_ModelUrlIsLive ==
    (mounted /\ pc = "idle" /\ modelUrl # NoUrl) =>
       modelUrl \in Urls /\ revoked[modelUrl] = 0

====
